---------------------------- MODULE Spec2Model ----------------------------
(***************************************************************************)
(* A model of asoubot's RSS polling loop (src/rss.js) and of the pieces of *)
(* index.js it is wired to (getGuildState, notifyGuild).                   *)
(*                                                                         *)
(* The program is a single Node.js event loop.  Every `await` is a point   *)
(* where the running task yields; one action below is the code that runs   *)
(* between two such points.  The tasks are the priming task (the async     *)
(* IIFE of startRssLoop) and one task per firing of the setInterval timer. *)
(* Nothing in startRssLoop orders these tasks, so they interleave freely   *)
(* at their awaits.  The model keeps at most MaxInFlight timer callbacks   *)
(* in flight at a time: a callback that has returned frees its slot for    *)
(* the next firing, and the number of firings is not bounded.              *)
(*                                                                         *)
(* Tweet ids are the canonical digit strings of /status/<digits>; they are *)
(* modelled as the positive integers they denote.  0 stands for null.      *)
(***************************************************************************)
EXTENDS Integers, Sequences, FiniteSets, TLC

\* ---------------------------------------------------------------- bounds
MaxId == 2
MaxInFlight == 1
MaxLen == 3
MaxMs == 60
MaxDigits == 2
MaxItems == 2
MaxTitle == 5

Users == {"A", "B"}
Guilds == {"g1", "g2"}

\* ORDER BY username COLLATE NOCASE (listTrackedAccounts) over Users.
UserOrder == <<"A", "B">>
\* Iteration order of client.guilds.fetch(), which is also the insertion
\* order of guildMap.
GuildOrder == <<"g1", "g2">>

Ids == 1..MaxId
Slots == 1..MaxInFlight

\* The tracked_account tables the runs start from: nothing tracked, one
\* account shared by both guilds, two accounts one of which is shared, and
\* two accounts tracked by one guild each.
TrackedInputs ==
    {[g \in Guilds |-> {}],
     [g \in Guilds |-> {"B"}],
     [g \in Guilds |-> IF g = "g1" THEN {"A", "B"} ELSE {"B"}],
     [g \in Guilds |-> IF g = "g1" THEN {"B"} ELSE {"A"}]}

\* g_lastSeenTweetIdByUser values: no entry in the Map, null, or an id.
NoEntry == -1
Null == 0

\* What the feed of one user currently yields through parser.parseURL,
\* pickLatestByStatusId and extractOriginalText: the greatest status id (0
\* when the feed has no item with an id) and whether its title gives text.
FeedValues ==
    {[id |-> 0, text |-> FALSE]} \cup [id : Ids, text : BOOLEAN]

VARIABLES
    feed,          \* [Users -> FeedValues]: the remote feeds (environment)
    tracked,       \* [Guilds -> SUBSET Users]: the tracked_account table
    lastSeen,      \* g_lastSeenTweetIdByUser
    timer,         \* TRUE once startRssLoop has created the interval timer
    prime,         \* the priming task (async IIFE of startRssLoop)
    ticks,         \* [Slots -> tick task]: the timer callbacks in flight
    startId,       \* history: each feed's latest id when startRssLoop was called
    calls,         \* history: who has invoked notifyGuild, translateToEnglish
    config,        \* the guilds that have a guild_config row
    io             \* the call under study of a function run on its own: its
                   \* arguments and its result

vars == <<feed, tracked, lastSeen, timer, prime, ticks, startId, calls,
          config, io>>

\* ------------------------------------------------------------- helpers
InSeq(s, x) == \E k \in 1..Len(s) : s[k] = x

\* db.js listTrackedAccounts: the guild's usernames, sorted.
ListTrackedAccounts(g) == SelectSeq(UserOrder, LAMBDA u : u \in tracked[g])

\* index.js getGuildState, guildMap: guild id -> accounts.
GuildMap == [g \in Guilds |-> ListTrackedAccounts(g)]

RECURSIVE AddAll(_, _)
\* `for (const u of accounts) all.add(u)`: a Set keeps first-insertion order.
AddAll(all, accounts) ==
    IF accounts = << >> THEN all
    ELSE AddAll(IF InSeq(all, Head(accounts)) THEN all
                ELSE Append(all, Head(accounts)),
                Tail(accounts))

RECURSIVE UnionFrom(_, _, _)
UnionFrom(gm, k, all) ==
    IF k > Len(GuildOrder) THEN all
    ELSE UnionFrom(gm, k + 1, AddAll(all, gm[GuildOrder[k]]))

\* index.js getGuildState, allUsernames: [...all].
AllUsernames(gm) == UnionFrom(gm, 1, << >>)

\* rss.js fetchLatestTweet(u): throws (network or parse failure), or returns
\* what the feed holds now: id 0 is the `return null` of lines 146 and 149.
FetchLatestTweet(u) ==
    {[thrown |-> TRUE, id |-> 0, text |-> FALSE]}
        \cup {[thrown |-> FALSE, id |-> feed[u].id, text |-> feed[u].text]}

\* rss.js line 208: g_lastSeenTweetIdByUser.get(u) || null
LastId(u) == IF lastSeen[u] = NoEntry THEN Null ELSE lastSeen[u]

NoBest == [user |-> "", id |-> 0]

IdleTick ==
    [pc |-> "idle", users |-> << >>, gmap |-> [g \in Guilds |-> << >>], i |-> 0,
     polled |-> {}, failed |-> {}, news |-> {}, best |-> NoBest,
     provider |-> "", english |-> "", gi |-> 0, notified |-> << >>,
     outcome |-> ""]

IdlePrime == [pc |-> "idle", users |-> << >>, i |-> 0]

\* No function is being run on its own.
NoCall == [fn |-> "none"]

\* ---------------------------------------------------------------- Init
Init ==
    /\ feed \in [Users -> FeedValues]
    /\ tracked \in TrackedInputs
    /\ lastSeen = [u \in Users |-> NoEntry]
    /\ timer = FALSE
    /\ prime = IdlePrime
    /\ ticks = [t \in Slots |-> IdleTick]
    /\ startId = [u \in Users |-> feed[u].id]
    /\ calls = {}
    /\ config = Guilds
    /\ io = NoCall


\* -------------------------------------------------------- startRssLoop
\* startRssLoop with its three collaborators present: the priming task is
\* launched (it runs up to its first await, the getGuildState call) and the
\* interval timer is created.  Priming is not awaited.
Start ==
    /\ ~timer
    /\ timer' = TRUE
    /\ prime' = [IdlePrime EXCEPT !.pc = "getState"]
    /\ startId' = [u \in Users |-> feed[u].id]
    /\ UNCHANGED <<feed, tracked, lastSeen, ticks, calls, config, io>>

\* The three collaborators startRssLoop requires in opts.
Collaborators == {"client", "getGuildState", "notifyGuild"}

\* HasAll with the third check forgotten (a mutant).
HasAllButNotify(opts) == {"client", "getGuildState"} \subseteq opts

\* rss.js lines 245-247: none of the three is missing.
HasAll(opts) == Collaborators \subseteq opts

\* startRssLoop(opts), opts being the set of collaborators that are present
\* (a missing opts is the empty set).  With one missing the Error is thrown
\* before anything is started; otherwise the loop is started.
StartRssLoop(opts) ==
    /\ io = NoCall
    /\ IF HasAll(opts)
       THEN Start
       ELSE /\ ~timer
            /\ io' = [fn |-> "startRssLoop", opts |-> opts, res |-> "Error"]
            /\ UNCHANGED <<feed, tracked, lastSeen, timer, prime, ticks,
                           startId, calls, config>>

\* ------------------------------------------------------------- priming
\* `await getGuildState()` of the priming task settles.  A rejection is
\* caught by the task's try/catch and ends priming.
PrimeGetState ==
    /\ prime.pc = "getState"
    /\ \E ok \in BOOLEAN :
        LET us == AllUsernames(GuildMap) IN
        prime' = IF ok /\ us # << >>
                 THEN [pc |-> "fetch", users |-> us, i |-> 1]
                 ELSE [prime EXCEPT !.pc = "done"]
    /\ UNCHANGED <<feed, tracked, lastSeen, timer, ticks, startId, calls, config, io>>

\* PrimeFetch with a notification of what was found (a mutant).
PrimeFetchAnnouncing ==
    /\ prime.pc = "fetch"
    /\ LET u == prime.users[prime.i] IN
       \E r \in FetchLatestTweet(u) :
          /\ lastSeen' = [lastSeen EXCEPT
                            ![u] = IF r.thrown \/ r.id = 0 THEN Null ELSE r.id]
          /\ calls' = IF r.thrown \/ r.id = 0 THEN calls
                      ELSE calls \cup {[by |-> "prime", fn |-> "notifyGuild"]}
    /\ prime' = IF prime.i = Len(prime.users)
                THEN [prime EXCEPT !.pc = "done"]
                ELSE [prime EXCEPT !.i = @ + 1]
    /\ UNCHANGED <<feed, tracked, timer, ticks, startId, config, io>>

\* One iteration of primeLastSeen's loop: the awaited fetch settles and the
\* entry of the user is set to the latest id, or to null.
PrimeFetch ==
    /\ prime.pc = "fetch"
    /\ LET u == prime.users[prime.i] IN
       \E r \in FetchLatestTweet(u) :
          lastSeen' = [lastSeen EXCEPT
                         ![u] = IF r.thrown \/ r.id = 0 THEN Null ELSE r.id]
    /\ prime' = IF prime.i = Len(prime.users)
                THEN [prime EXCEPT !.pc = "done"]
                ELSE [prime EXCEPT !.i = @ + 1]
    /\ UNCHANGED <<feed, tracked, timer, ticks, startId, calls, config, io>>

\* ---------------------------------------------------------------- ticks
\* The interval timer fires: the callback starts and runs up to its first
\* await, the getGuildState call.  setInterval does not wait for an earlier
\* callback's promise, nor for the priming task.
StartCallback(t) ==
    /\ timer
    /\ ticks' = [ticks EXCEPT ![t] = [IdleTick EXCEPT !.pc = "getState"]]
    /\ UNCHANGED <<feed, tracked, lastSeen, timer, prime, startId, calls, config, io>>

\* A firing of the timer takes the first slot that is free.
TimerFire(t) ==
    /\ ticks[t].pc \in {"idle", "done"}
    /\ \A s \in DOMAIN ticks : s < t => ticks[s].pc \notin {"idle", "done"}
    /\ StartCallback(t)

\* OnStateFailure that logs the failure and polls all the same (a mutant).
OnStateFailurePolling(tk) ==
    IF AllUsernames(GuildMap) = << >>
    THEN [tk EXCEPT !.pc = "done", !.outcome = "stateFailed"]
    ELSE [tk EXCEPT !.pc = "fetch", !.outcome = "stateFailed",
                    !.users = AllUsernames(GuildMap), !.gmap = GuildMap, !.i = 1]

\* OnStateFailure without the try/catch: the rejection escapes the callback
\* and ends the process, so the callback never returns (a mutant).
OnStateFailureUncaught(tk) == [tk EXCEPT !.pc = "crashed", !.outcome = "stateFailed"]

\* rss.js lines 271-273: the rejection of getGuildState is caught and
\* logged, and the callback returns.
OnStateFailure(tk) == [tk EXCEPT !.pc = "done", !.outcome = "stateFailed"]

\* `await getGuildState()` of a tick settles.  A rejection is caught by the
\* callback's try/catch: the tick ends.  With no username pollOnce returns
\* null at once and the tick returns.
TickGetState(t) ==
    /\ ticks[t].pc = "getState"
    /\ \E ok \in BOOLEAN :
        LET gm == GuildMap
            us == AllUsernames(gm) IN
        ticks' = [ticks EXCEPT ![t] =
                    IF ~ok THEN OnStateFailure(@)
                    ELSE IF us = << >>
                    THEN [@ EXCEPT !.pc = "done", !.outcome = "noTweet", !.gmap = gm]
                    ELSE [@ EXCEPT !.pc = "fetch", !.users = us, !.gmap = gm,
                                   !.i = 1]]
    /\ UNCHANGED <<feed, tracked, lastSeen, timer, prime, startId, calls, config, io>>

\* rss.js line 209: the item is skipped when its id equals the stored one.
IsNew(id, lastId) == id # lastId

\* Better with the comparison dropped: the last new item wins (a mutant).
BetterLast(id, best) == TRUE

\* rss.js line 213: !best || BigInt(latest.id) > BigInt(best.id)
Better(id, best) == best = NoBest \/ id > best.id

\* SeenAfter with the set() forgotten (a mutant).
SeenAfterForgotten(u, id) == lastSeen

\* rss.js line 211: g_lastSeenTweetIdByUser.set(u, latest.id)
SeenAfter(u, id) == [lastSeen EXCEPT ![u] = id]

\* SeenAfterThrow with the catch block of primeLastSeen (a mutant).
SeenAfterThrowNull(u) == [lastSeen EXCEPT ![u] = Null]

\* rss.js lines 201-204: a failed fetch is logged and the loop continues.
SeenAfterThrow(u) == lastSeen

\* Skipped without the test of the text (a mutant).
SkippedOnlyNull(r) == r.id = 0

\* rss.js line 206: if (!latest || !latest.originalText) continue
Skipped(r) == r.id = 0 \/ ~r.text

\* One iteration of pollOnce's loop: the awaited fetch of users[i] settles,
\* the item is compared and recorded, and the loop goes on to the next fetch.
\* After the last user pollOnce returns null (the tick returns) or calls
\* translateToEnglish on the best item.
TickFetch(t) ==
    LET tk == ticks[t]
        u == tk.users[tk.i] IN
    /\ tk.pc = "fetch"
    /\ \E r \in FetchLatestTweet(u) :
        LET lastId == LastId(u)
            compared == ~r.thrown /\ ~Skipped(r)
            isNew == compared /\ IsNew(r.id, lastId)
            best1 == IF isNew /\ Better(r.id, tk.best)
                     THEN [user |-> u, id |-> r.id] ELSE tk.best
            last == tk.i = Len(tk.users)
            tk1 == [tk EXCEPT
                      !.failed = IF r.thrown THEN @ \cup {u} ELSE @,
                      !.polled = IF r.thrown THEN @ ELSE @ \cup {u},
                      !.news = IF isNew THEN @ \cup {[user |-> u, id |-> r.id]}
                               ELSE @,
                      !.best = best1,
                      !.i = @ + 1]
        IN
        /\ lastSeen' = IF r.thrown THEN SeenAfterThrow(u)
                       ELSE IF isNew THEN SeenAfter(u, r.id)
                       ELSE lastSeen
        /\ ticks' = [ticks EXCEPT ![t] =
                       IF ~last THEN tk1
                       ELSE IF best1 = NoBest
                       THEN [tk1 EXCEPT !.pc = "done", !.outcome = "noTweet"]
                       ELSE [tk1 EXCEPT !.pc = "translate"]]
        /\ calls' = IF last /\ best1 # NoBest
                    THEN calls \cup {[by |-> "tick", fn |-> "translateToEnglish"]}
                    ELSE calls
    /\ UNCHANGED <<feed, tracked, timer, prime, startId, config, io>>

\* rss.js lines 266-267: the first guild of the snapshot, from position
\* `from` on, whose list includes the user; 0 when there is none.
NextSubscribed(gm, user, from) ==
    LET S == {k \in from..Len(GuildOrder) : InSeq(gm[GuildOrder[k]], user)} IN
    IF S = {} THEN 0 ELSE CHOOSE k \in S : \A j \in S : k <= j

\* Deliver reading the store again instead of the tick's snapshot (a mutant).
DeliverFromStore(tk, from) ==
    LET k == NextSubscribed(GuildMap, tk.best.user, from) IN
    IF k = 0 THEN [tk EXCEPT !.pc = "done", !.outcome = "delivered"]
    ELSE [tk EXCEPT !.pc = "notify", !.gi = k,
                    !.notified = Append(@, [guild |-> GuildOrder[k],
                                            user |-> tk.best.user,
                                            id |-> tk.best.id])]

\* The fan-out loop from position `from`: notifyGuild is invoked for the next
\* subscribed guild (and awaited), or the loop and the tick end.
Deliver(tk, from) ==
    LET k == NextSubscribed(tk.gmap, tk.best.user, from) IN
    IF k = 0 THEN [tk EXCEPT !.pc = "done", !.outcome = "delivered"]
    ELSE [tk EXCEPT !.pc = "notify", !.gi = k,
                    !.notified = Append(@, [guild |-> GuildOrder[k],
                                            user |-> tk.best.user,
                                            id |-> tk.best.id])]

\* The history of a step that runs Deliver(tk, from).
DeliverLog(tk, from) ==
    calls' = IF NextSubscribed(tk.gmap, tk.best.user, from) = 0
             THEN calls
             ELSE calls \cup {[by |-> "tick", fn |-> "notifyGuild"]}

\* What happens to the provider call of translateToEnglish on the text of
\* an item (trimmed and not empty): it is not made (no provider, or the text
\* is a bare URL), it throws, or it returns (a text, or nothing).
ProviderOutcomes == {"skipped", "threw", "translated"}

\* rss.js lines 118-131: englishText, as a text other than the original
\* ("translated") or the original text itself ("original").
EnglishText(p) == IF p = "translated" THEN "translated" ELSE "original"

\* `await translateToEnglish(...)` settles (it never rejects): pollOnce
\* returns the tweet and the fan-out loop starts.
TickTranslate(t) ==
    LET tk == ticks[t] IN
    /\ tk.pc = "translate"
    /\ \E p \in ProviderOutcomes :
        ticks' = [ticks EXCEPT ![t] =
                    Deliver([tk EXCEPT !.provider = p,
                                       !.english = EnglishText(p)], 1)]
    /\ DeliverLog(tk, 1)
    /\ UNCHANGED <<feed, tracked, lastSeen, timer, prime, startId, config, io>>

\* `await notifyGuild(guildId, tweet)` settles: the loop goes on, or the
\* rejection is caught by the callback's try/catch and the tick ends.
TickNotify(t) ==
    LET tk == ticks[t] IN
    /\ tk.pc = "notify"
    /\ \/ /\ ticks' = [ticks EXCEPT ![t] = Deliver(tk, tk.gi + 1)]
          /\ DeliverLog(tk, tk.gi + 1)
       \/ /\ ticks' = [ticks EXCEPT ![t] =
                         [tk EXCEPT !.pc = "done", !.outcome = "notifyFailed"]]
          /\ UNCHANGED calls
    /\ UNCHANGED <<feed, tracked, lastSeen, timer, prime, startId, config, io>>

\* ---------------------------------------------------------- environment
\* Some task has a fetch of u's feed outstanding.
Awaited(u) ==
    \/ prime.pc = "fetch" /\ prime.users[prime.i] = u
    \/ \E t \in DOMAIN ticks :
          ticks[t].pc = "fetch" /\ ticks[t].users[ticks[t].i] = u

\* The remote feed of one user changes (a new post, a deleted post, a
\* title without text).  Only a fetch observes a feed, so the changes made
\* while no fetch of the feed is outstanding are made once one is.
FeedChange(u) ==
    /\ Awaited(u)
    /\ \E v \in FeedValues \ {feed[u]} : feed' = [feed EXCEPT ![u] = v]
    /\ UNCHANGED <<tracked, lastSeen, timer, prime, ticks, startId, calls, config, io>>

\* ---------------------------------------------------------------- Spec
Next ==
    \/ Start
    \/ PrimeGetState
    \/ PrimeFetch
    \/ \E t \in Slots : TimerFire(t)
    \/ \E t \in Slots : TickGetState(t)
    \/ \E t \in Slots : TickFetch(t)
    \/ \E t \in Slots : TickTranslate(t)
    \/ \E t \in Slots : TickNotify(t)
    \/ \E u \in Users : FeedChange(u)

Spec == Init /\ [][Next]_vars

\* The loop with startRssLoop called on any set of collaborators.
NextStart ==
    \/ \E opts \in SUBSET Collaborators : StartRssLoop(opts)
    \/ PrimeGetState
    \/ PrimeFetch
    \/ \E t \in Slots : TimerFire(t)
    \/ \E t \in Slots : TickGetState(t)
    \/ \E t \in Slots : TickFetch(t)
    \/ \E t \in Slots : TickTranslate(t)
    \/ \E t \in Slots : TickNotify(t)
    \/ \E u \in Users : FeedChange(u)

SpecStart == Init /\ [][NextStart]_vars

\* ----------------------------------------------------- translateToEnglish
\* Texts are sequences of characters of three kinds: "s" is a whitespace
\* character, "h" stands for a scheme prefix (http:// or https://, in any
\* case) and "c" for any other character that is not whitespace.
Chars == {"s", "h", "c"}
Texts == UNION {[1..n -> Chars] : n \in 0..MaxLen}

RECURSIVE TrimStart(_)
TrimStart(s) == IF s # << >> /\ Head(s) = "s" THEN TrimStart(Tail(s)) ELSE s

RECURSIVE TrimEnd(_)
TrimEnd(s) ==
    IF s # << >> /\ s[Len(s)] = "s" THEN TrimEnd(SubSeq(s, 1, Len(s) - 1)) ELSE s

\* String.prototype.trim
Trim(s) == TrimEnd(TrimStart(s))

\* rss.js line 118: /^https?:\/\/\S+$/i.test(text)
IsBareUrl(s) ==
    /\ Len(s) >= 2
    /\ s[1] = "h"
    /\ \A k \in 2..Len(s) : s[k] # "s"

\* What deeplTranslator.translateText does when it is called: it throws, it
\* returns a result with a text, or a result without one.
TranslateOutcomes == {"threw", "text", "none"}

\* The text of a result of the provider.
ProviderText == <<"c", "s", "c">>

\* rss.js lines 114-132: the returned text, and whether translateText was
\* called.  `configured` is deeplTranslator being set.
TranslateToEnglish(originalText, configured, outcome) ==
    LET text == Trim(originalText) IN
    IF text = << >> THEN [out |-> << >>, invoked |-> FALSE]
    ELSE IF IsBareUrl(text) THEN [out |-> text, invoked |-> FALSE]
    ELSE IF ~configured THEN [out |-> text, invoked |-> FALSE]
    ELSE [out |-> IF outcome = "threw" THEN text
                  ELSE IF outcome = "text" THEN ProviderText ELSE << >>,
          invoked |-> TRUE]

\* The loop's variables while a function is run on its own.
LoopIdle ==
    /\ feed = [u \in Users |-> [id |-> 0, text |-> FALSE]]
    /\ tracked = [g \in Guilds |-> {}]
    /\ lastSeen = [u \in Users |-> NoEntry]
    /\ timer = FALSE
    /\ prime = IdlePrime
    /\ ticks = [t \in Slots |-> IdleTick]
    /\ startId = [u \in Users |-> 0]
    /\ calls = {}
    /\ config = {}

LoopUnchanged ==
    UNCHANGED <<feed, tracked, lastSeen, timer, prime, ticks, startId, calls,
                config>>

InitTranslate ==
    /\ LoopIdle
    /\ io \in [fn : {"translateToEnglish"}, text : Texts, configured : BOOLEAN,
                outcome : TranslateOutcomes, done : {FALSE},
                res : {[out |-> << >>, invoked |-> FALSE]}]

CallTranslate ==
    /\ io.fn = "translateToEnglish"
    /\ ~io.done
    /\ io' = [io EXCEPT !.done = TRUE,
                        !.res = TranslateToEnglish(io.text, io.configured,
                                                   io.outcome)]
    /\ LoopUnchanged

SpecTranslate == InitTranslate /\ [][CallTranslate]_vars

\* ----------------------------------------------------- overlapping ticks
\* The loop with room for one more callback in flight, for the firings of
\* the timer that come while an earlier callback is still awaiting.  One
\* account is tracked, by both guilds.
OverlapSlots == 1..(MaxInFlight + 1)

InitOverlap ==
    /\ feed \in [Users -> FeedValues]
    /\ feed["A"] = [id |-> 0, text |-> FALSE]
    /\ tracked = [g \in Guilds |-> {"B"}]
    /\ lastSeen = [u \in Users |-> NoEntry]
    /\ timer = FALSE
    /\ prime = IdlePrime
    /\ ticks = [t \in OverlapSlots |-> IdleTick]
    /\ startId = [u \in Users |-> feed[u].id]
    /\ calls = {}
    /\ config = Guilds
    /\ io = NoCall

NextOverlap ==
    \/ Start
    \/ PrimeGetState
    \/ PrimeFetch
    \/ \E t \in OverlapSlots : TimerFire(t)
    \/ \E t \in OverlapSlots : TickGetState(t)
    \/ \E t \in OverlapSlots : TickFetch(t)
    \/ \E t \in OverlapSlots : TickTranslate(t)
    \/ \E t \in OverlapSlots : TickNotify(t)
    \/ \E u \in Users : FeedChange(u)

SpecOverlap == InitOverlap /\ [][NextOverlap]_vars

\* --------------------------------------------------------- the interval
\* index.js line 551 and rss.js line 243: the default interval.
DefaultIntervalMs == 60000

\* JavaScript numbers: NaN, or a number.
NaN == [nan |-> TRUE, v |-> 0]
Num(n) == [nan |-> FALSE, v |-> n]

\* The numbers RSS_INTERVAL_MS is set to in the runs.
IntervalInputs == (-2..MaxMs) \cup {1000, DefaultIntervalMs, 86400000}

\* process.env.RSS_INTERVAL_MS: unset, the empty string, the decimal
\* numeral of a number, or a string that is not a numeral ("abc", "60s").
EnvValues ==
    {[kind |-> "unset", n |-> 0], [kind |-> "empty", n |-> 0],
     [kind |-> "other", n |-> 0]}
        \cup [kind : {"numeral"}, n : IntervalInputs]

\* index.js line 551: Number(process.env.RSS_INTERVAL_MS || 60_000), and
\* rss.js line 243, whose default applies to undefined only.  Number() of a
\* string that is not a numeral is NaN.
IntervalMs(env) ==
    IF env.kind \in {"unset", "empty"} THEN Num(DefaultIntervalMs)
    ELSE IF env.kind = "numeral" THEN Num(env.n)
    ELSE NaN

InitInterval ==
    /\ LoopIdle
    /\ io \in [fn : {"clientReady"}, env : EnvValues, done : {FALSE},
                res : {Num(0)}]

\* The clientReady handler: startRssLoop hands intervalMs to setInterval.
ClientReady ==
    /\ io.fn = "clientReady"
    /\ ~io.done
    /\ io' = [io EXCEPT !.done = TRUE, !.res = IntervalMs(io.env)]
    /\ LoopUnchanged

SpecInterval == InitInterval /\ [][ClientReady]_vars

\* --------------------------------------------------- pickLatestByStatusId
\* The digits the ids of the runs are written with, and the ids: the digit
\* strings that /\/status\/(\d+)/ captures.
Digits == {0, 1, 9}
DigitStrings == UNION {[1..n -> Digits] : n \in 1..MaxDigits}

\* null, as the id of a link.
NoMatch == << >>

\* The link of an item: whether it is a string that holds "/status/", and
\* the digits that follow the first "/status/" (none in ".../status/abc").
Links == [status : BOOLEAN, digits : DigitStrings \cup {<< >>}]
ItemLists == UNION {[1..n -> Links] : n \in 0..MaxItems}

\* rss.js lines 78-82: the digits captured by /\/status\/(\d+)/, or null.
ExtractTweetIdFromLink(link) ==
    IF link.status /\ link.digits # << >> THEN link.digits ELSE NoMatch

RECURSIVE BigInt(_)
\* BigInt(id): the integer a digit string denotes, of any length.
BigInt(ds) ==
    IF ds = << >> THEN 0
    ELSE 10 * BigInt(SubSeq(ds, 1, Len(ds) - 1)) + ds[Len(ds)]

RECURSIVE StringGreater(_, _)
\* a > b on strings: the order of the first character that differs, a proper
\* prefix being smaller.
StringGreater(a, b) ==
    IF a = << >> THEN FALSE
    ELSE IF b = << >> THEN TRUE
    ELSE IF Head(a) # Head(b) THEN Head(a) > Head(b)
    ELSE StringGreater(Tail(a), Tail(b))

\* GreaterId comparing the ids as strings (a mutant).
GreaterIdAsString(id, bestId) == StringGreater(id, bestId)

\* rss.js line 98: BigInt(id) > BigInt(bestId)
GreaterId(id, bestId) == BigInt(id) > BigInt(bestId)

RECURSIVE PickFrom(_, _, _)
\* The loop of pickLatestByStatusId from item k on; best is the position of
\* bestItem (0 for null).
PickFrom(items, k, best) ==
    IF k > Len(items) THEN best
    ELSE LET id == ExtractTweetIdFromLink(items[k]) IN
         IF id = NoMatch THEN PickFrom(items, k + 1, best)
         ELSE IF best = 0 \/ GreaterId(id, ExtractTweetIdFromLink(items[best]))
         THEN PickFrom(items, k + 1, k)
         ELSE PickFrom(items, k + 1, best)

\* rss.js lines 90-106: the position of the returned item and its id; null
\* is position 0.
PickLatestByStatusId(items) ==
    LET best == PickFrom(items, 1, 0) IN
    IF best = 0 THEN [item |-> 0, id |-> NoMatch]
    ELSE [item |-> best, id |-> ExtractTweetIdFromLink(items[best])]

InitPick ==
    /\ LoopIdle
    /\ io \in [fn : {"pickLatestByStatusId"}, items : ItemLists, done : {FALSE},
                res : {[item |-> 0, id |-> NoMatch]}]

CallPick ==
    /\ io.fn = "pickLatestByStatusId"
    /\ ~io.done
    /\ io' = [io EXCEPT !.done = TRUE, !.res = PickLatestByStatusId(io.items)]
    /\ LoopUnchanged

SpecPick == InitPick /\ [][CallPick]_vars

\* ---------------------------------------------------- extractOriginalText
\* Titles are sequences of characters of four kinds: "s" is a space, ":" and
\* ")" are themselves, and "c" is any other character that is not
\* whitespace.
TitleChars == {"s", ":", ")", "c"}
Titles == UNION {[1..n -> TitleChars] : n \in 0..MaxTitle}

\* String.prototype.indexOf: the first position (from 1) where pat occurs in
\* s, 0 standing for -1.
IndexOf(s, pat) ==
    LET At == {k \in 1..(Len(s) - Len(pat) + 1) :
                  SubSeq(s, k, k + Len(pat) - 1) = pat} IN
    IF At = {} THEN 0 ELSE CHOOSE k \in At : \A j \in At : k <= j

\* String.prototype.slice(from), from counted from 1.
SliceFrom(s, from) == SubSeq(s, from, Len(s))

\* rss.js lines 59-70, for an item whose title is a string.
ExtractOriginalText(rawTitle) ==
    LET title == Trim(rawTitle)
        idx == IndexOf(title, <<")", ":", "s">>)
        idx2 == IndexOf(title, <<":", "s">>) IN
    IF title = << >> THEN << >>
    ELSE IF idx # 0 THEN Trim(SliceFrom(title, idx + 3))
    ELSE IF idx2 # 0 THEN Trim(SliceFrom(title, idx2 + 2))
    ELSE title

InitExtract ==
    /\ LoopIdle
    /\ io \in [fn : {"extractOriginalText"}, title : Titles, done : {FALSE},
                res : {<< >>}]

CallExtract ==
    /\ io.fn = "extractOriginalText"
    /\ ~io.done
    /\ io' = [io EXCEPT !.done = TRUE, !.res = ExtractOriginalText(io.title)]
    /\ LoopUnchanged

SpecExtract == InitExtract /\ [][CallExtract]_vars

\* --------------------------------------------------------------- the store
\* db.js: the two tables.  `config` holds the guild_id of the guild_config
\* rows and `tracked` the tracked_account rows; io holds the last call and
\* what it returned.
LoopRest == UNCHANGED <<feed, lastSeen, timer, prime, ticks, startId, calls>>

\* ForeignKeyOk without `PRAGMA foreign_keys = ON` (a mutant).
ForeignKeyUnchecked(g) == TRUE

\* db.js lines 21 and 34-36: the foreign key of tracked_account is enforced.
ForeignKeyOk(g) == g \in config

\* AddOutcome of a plain INSERT, without OR IGNORE (a mutant).
AddOutcomePlainInsert(g, u) ==
    IF u \in tracked[g] \/ ~ForeignKeyOk(g) THEN "throws" ELSE "true"

\* db.js lines 92-97: INSERT OR IGNORE skips a row that is already there
\* (info.changes is 0: false); OR IGNORE does not cover the foreign key,
\* whose violation makes stmt.run throw; otherwise the row is inserted.
AddOutcome(g, u) ==
    IF u \in tracked[g] THEN "false"
    ELSE IF ~ForeignKeyOk(g) THEN "throws"
    ELSE "true"

\* The tracked_account table after addTrackedAccount(g, u).
TrackedAfterAdd(g, u) ==
    IF AddOutcome(g, u) = "true" THEN [tracked EXCEPT ![g] = @ \cup {u}]
    ELSE tracked

\* The tracked_account table after removeTrackedAccount(g, u).
TrackedAfterRemove(g, u) == [tracked EXCEPT ![g] = @ \ {u}]

\* db.js addTrackedAccount(guildId, username)
AddTrackedAccount(g, u) ==
    /\ tracked' = TrackedAfterAdd(g, u)
    /\ io' = [fn |-> "addTrackedAccount", guild |-> g, username |-> u,
              res |-> AddOutcome(g, u)]
    /\ UNCHANGED config
    /\ LoopRest

\* db.js removeTrackedAccount(guildId, username): DELETE ... WHERE guild_id
\* = ? AND username = ?, true when a row was deleted.
RemoveTrackedAccount(g, u) ==
    /\ tracked' = TrackedAfterRemove(g, u)
    /\ io' = [fn |-> "removeTrackedAccount", guild |-> g, username |-> u,
              res |-> IF u \in tracked[g] THEN "true" ELSE "false"]
    /\ UNCHANGED config
    /\ LoopRest

\* db.js setGuildNewsChannel(guildId, channelId): the row is inserted, or
\* its post_channel_id is updated.
SetGuildNewsChannel(g) ==
    /\ config' = config \cup {g}
    /\ io' = [fn |-> "setGuildNewsChannel", guild |-> g, username |-> "",
              res |-> "undefined"]
    /\ UNCHANGED tracked
    /\ LoopRest

\* db.js setGuildPingRole(guildId, pingRole): the row is inserted (with an
\* empty post_channel_id), or its ping_role is updated.
SetGuildPingRole(g) ==
    /\ config' = config \cup {g}
    /\ io' = [fn |-> "setGuildPingRole", guild |-> g, username |-> "",
              res |-> "undefined"]
    /\ UNCHANGED tracked
    /\ LoopRest

\* DeleteGuildData without ON DELETE CASCADE (a mutant).
DeleteGuildDataNoCascade(g) ==
    /\ config' = config \ {g}
    /\ io' = [fn |-> "deleteGuildData", guild |-> g, username |-> "",
              res |-> IF g \in config THEN "1" ELSE "0"]
    /\ UNCHANGED tracked
    /\ LoopRest

\* db.js deleteGuildData(guildId): the guild_config row is deleted, and ON
\* DELETE CASCADE deletes the guild's tracked_account rows.  The number of
\* guild_config rows deleted is returned.
DeleteGuildData(g) ==
    /\ config' = config \ {g}
    /\ tracked' = IF g \in config THEN [tracked EXCEPT ![g] = {}] ELSE tracked
    /\ io' = [fn |-> "deleteGuildData", guild |-> g, username |-> "",
              res |-> IF g \in config THEN "1" ELSE "0"]
    /\ LoopRest

\* commands.js line 180: the account /setup adds ('shu1aso'), here the
\* first of Users.
DefaultAccount == "A"

\* commands.js handleSetup: outside a guild or with a channel that is not
\* text-based the command replies and returns; otherwise it runs
\* setGuildNewsChannel, setGuildPingRole and addTrackedAccount(guildId,
\* 'shu1aso') one after the other, with no await in between.
HandleSetup(g, accepted) ==
    /\ config' = IF accepted THEN config \cup {g} ELSE config
    /\ tracked' = IF accepted /\ DefaultAccount \notin tracked[g]
                      /\ ForeignKeyOk(g)'
                   THEN [tracked EXCEPT ![g] = @ \cup {DefaultAccount}]
                   ELSE tracked
    /\ io' = [fn |-> "handleSetup", guild |-> g, username |-> DefaultAccount,
              res |-> IF accepted THEN "configured" ELSE "refused"]
    /\ LoopRest

\* The store after the tables were created: both are empty.
InitStore ==
    /\ LoopIdle
    /\ io = NoCall

NextStore ==
    \/ \E g \in Guilds : SetGuildNewsChannel(g)
    \/ \E g \in Guilds : SetGuildPingRole(g)
    \/ \E g \in Guilds : \E u \in Users : AddTrackedAccount(g, u)
    \/ \E g \in Guilds : \E u \in Users : RemoveTrackedAccount(g, u)
    \/ \E g \in Guilds : DeleteGuildData(g)
    \/ \E g \in Guilds : \E accepted \in BOOLEAN : HandleSetup(g, accepted)

SpecStore == InitStore /\ [][NextStore]_vars

\* ---------------------------------------------------- consecutive ticks
\* Seen-state as priming and earlier ticks can have left it.
SeenValues == {NoEntry, Null} \cup Ids

\* The loop at a moment when priming is over and no tick is in flight, with
\* any feeds, any seen-state and any of the tracked_account tables.
InitTwoTicks ==
    /\ feed \in [Users -> FeedValues]
    /\ tracked \in TrackedInputs
    /\ lastSeen \in [Users -> SeenValues]
    /\ timer = TRUE
    /\ prime = [IdlePrime EXCEPT !.pc = "done"]
    /\ ticks = [t \in OverlapSlots |-> IdleTick]
    /\ startId = [u \in Users |-> feed[u].id]
    /\ calls = {}
    /\ config = Guilds
    /\ io = NoCall

\* Two firings of the timer, the second after the first callback has
\* returned, while the feeds and the store stay as they are.  The first
\* callback is kept in slot 1 and the second runs in slot 2.
FirstTick == ticks[1].pc = "idle" /\ StartCallback(1)

SecondTick == ticks[1].pc = "done" /\ ticks[2].pc = "idle" /\ StartCallback(2)

NextTwoTicks ==
    \/ FirstTick
    \/ SecondTick
    \/ \E t \in OverlapSlots : TickGetState(t)
    \/ \E t \in OverlapSlots : TickFetch(t)
    \/ \E t \in OverlapSlots : TickTranslate(t)
    \/ \E t \in OverlapSlots : TickNotify(t)

SpecTwoTicks == InitTwoTicks /\ [][NextTwoTicks]_vars

\* The loop from startRssLoop on, with the first two firings of the timer
\* (the second after the first callback has returned) coming while the
\* priming task may still be running.  The feeds and the store stay as they
\* are.
InitEarlyTicks ==
    /\ feed \in [Users -> FeedValues]
    /\ tracked \in TrackedInputs
    /\ lastSeen = [u \in Users |-> NoEntry]
    /\ timer = FALSE
    /\ prime = IdlePrime
    /\ ticks = [t \in OverlapSlots |-> IdleTick]
    /\ startId = [u \in Users |-> feed[u].id]
    /\ calls = {}
    /\ config = Guilds
    /\ io = NoCall

NextEarlyTicks ==
    \/ Start
    \/ PrimeGetState
    \/ PrimeFetch
    \/ FirstTick
    \/ SecondTick
    \/ \E t \in OverlapSlots : TickGetState(t)
    \/ \E t \in OverlapSlots : TickFetch(t)
    \/ \E t \in OverlapSlots : TickTranslate(t)
    \/ \E t \in OverlapSlots : TickNotify(t)

SpecEarlyTicks == InitEarlyTicks /\ [][NextEarlyTicks]_vars

\* ------------------------------------------------- changing subscriptions
\* commands.js handleAddAccount, in a guild: the account is added and the
\* reply is awaited.  The stored row is changed before the first await.
HandleAddAccount(g, u) ==
    /\ tracked' = TrackedAfterAdd(g, u)
    /\ UNCHANGED <<config, io>>
    /\ LoopRest

\* commands.js handleRemoveAccount, in a guild.
HandleRemoveAccount(g, u) ==
    /\ tracked' = TrackedAfterRemove(g, u)
    /\ UNCHANGED <<config, io>>
    /\ LoopRest

\* The loop while /addaccount and /removeaccount change the tracked_account
\* table (the commands run between any two steps of the loop).  Both feeds
\* have an item with text and stay as they are.
InitSubs ==
    /\ feed = [u \in Users |-> [id |-> IF u = "A" THEN 1 ELSE 2, text |-> TRUE]]
    /\ tracked \in TrackedInputs
    /\ lastSeen = [u \in Users |-> NoEntry]
    /\ timer = FALSE
    /\ prime = IdlePrime
    /\ ticks = [t \in Slots |-> IdleTick]
    /\ startId = [u \in Users |-> feed[u].id]
    /\ calls = {}
    /\ config = Guilds
    /\ io = NoCall

NextSubs ==
    \/ Start
    \/ PrimeGetState
    \/ PrimeFetch
    \/ \E t \in Slots : TimerFire(t)
    \/ \E t \in Slots : TickGetState(t)
    \/ \E t \in Slots : TickFetch(t)
    \/ \E t \in Slots : TickTranslate(t)
    \/ \E t \in Slots : TickNotify(t)
    \/ \E g \in Guilds : \E u \in Users : HandleAddAccount(g, u)
    \/ \E g \in Guilds : \E u \in Users : HandleRemoveAccount(g, u)

SpecSubs == InitSubs /\ [][NextSubs]_vars

\* ------------------------------------------------------- the fair loop
\* A step of a timer callback: the timer fires, or an awaited promise of a
\* callback in flight settles.
TickStep ==
    \E t \in Slots :
        \/ TimerFire(t)
        \/ TickGetState(t)
        \/ TickFetch(t)
        \/ TickTranslate(t)
        \/ TickNotify(t)

\* The loop under the scheduling Node.js gives it: an interval timer that was
\* created keeps firing (nothing calls clearInterval), and every awaited
\* promise settles, by success or by failure (the network clients time out).
\* Nothing is assumed of the priming task nor of the feeds.
SpecFair == Init /\ [][Next]_vars /\ WF_vars(TickStep)

\* ------------------------------------------------- the two-account tick
\* One tick over fixed feeds, after a priming that has left A at 3 and B at
\* 1: A's latest item is 5 and B's is 10.  The table of tracked accounts is
\* any table over the two guilds.
InitScenario ==
    /\ feed = [u \in Users |-> [id |-> IF u = "A" THEN 5 ELSE 10, text |-> TRUE]]
    /\ tracked \in [Guilds -> SUBSET Users]
    /\ lastSeen = [u \in Users |-> IF u = "A" THEN 3 ELSE 1]
    /\ timer = TRUE
    /\ prime = [IdlePrime EXCEPT !.pc = "done"]
    /\ ticks = [t \in Slots |-> IdleTick]
    /\ startId = [u \in Users |-> IF u = "A" THEN 3 ELSE 1]
    /\ calls = {}
    /\ config = Guilds
    /\ io = NoCall

NextScenario ==
    \/ ticks[1].pc = "idle" /\ TimerFire(1)
    \/ TickGetState(1)
    \/ TickFetch(1)
    \/ TickTranslate(1)
    \/ TickNotify(1)

SpecScenario == InitScenario /\ [][NextScenario]_vars

\* ---------------------------------------------------------------- claims
\* The tick has left pollOnce's loop.
PastLoop(tk) ==
    \/ tk.pc \in {"translate", "notify"}
    \/ tk.pc = "done" /\ tk.outcome \in {"noTweet", "delivered", "notifyFailed"}

\* In this step tick t handles the fetched item of user u: an item with an
\* id and text, which is compared with the stored id.
Compares(t, u) ==
    /\ ticks[t].pc = "fetch"
    /\ ticks[t].users[ticks[t].i] = u
    /\ u \in ticks'[t].polled
    /\ feed[u].id # 0
    /\ feed[u].text

SeqToSet(s) == {s[k] : k \in 1..Len(s)}

\* C1: for every tracked identity the stored id never decreases and never
\* goes back from a recorded id to none, over any sequence of priming and
\* tick steps and any feed contents.
C1_SeenNeverDecreases ==
    [][\A u \in Users :
         (IF lastSeen'[u] = NoEntry THEN Null ELSE lastSeen'[u]) >= LastId(u)]_vars

\* C2: a tick treats a fetched item as new (records it, makes it eligible)
\* exactly when its id is strictly greater than the stored id or no id is
\* stored; an item with an id at most the stored one is not recorded as new.
C2_NewIffGreater ==
    [][\A t \in Slots : \A u \in Users :
         Compares(t, u) =>
            ([user |-> u, id |-> feed[u].id] \in ticks'[t].news
                <=> feed[u].id > LastId(u))]_vars

\* C3: no tick reads or writes seen-state while priming is still in flight:
\* whenever a tick compares an item with the stored id, priming has finished.
C3_NoTickDuringPriming ==
    [][\A t \in Slots : \A u \in Users :
         Compares(t, u) => prime.pc = "done"]_vars

\* C4: the item that was the latest of an identity's feed at start-up is
\* never handed to notifyGuild by any tick.
C4_StartupItemNeverDelivered ==
    \A t \in Slots : \A d \in SeqToSet(ticks[t].notified) :
        d.id # startId[d.user]

\* C5: a step of the priming task invokes neither notifyGuild nor
\* translateToEnglish and touches no tick; a priming fetch writes only the
\* entry of the fetched identity, with the feed's latest id or with null.
C5_PrimingSilent ==
    [][prime' # prime =>
         /\ calls' = calls
         /\ ticks' = ticks
         /\ prime.pc = "fetch" =>
              LET u == prime.users[prime.i] IN
              /\ lastSeen'[u] \in {Null, feed[u].id}
              /\ \A v \in Users \ {u} : lastSeen'[v] = lastSeen[v]
         /\ prime.pc # "fetch" => lastSeen' = lastSeen]_vars

\* Priming has finished, has recorded an id, and nothing was ever called.
C5_Witness ==
    /\ prime.pc = "done"
    /\ \E u \in Users : lastSeen[u] \in Ids
    /\ calls = {}

\* C6: a tick hands at most one item to notifyGuild, and it is the item with
\* the greatest id among the items the tick recorded as new; while the loop
\* runs nothing is delivered.
C6_OnlyGreatestDelivered ==
    \A t \in Slots :
        LET tk == ticks[t] IN
        /\ \A d \in SeqToSet(tk.notified) :
              d.user = tk.best.user /\ d.id = tk.best.id
        /\ ~PastLoop(tk) => tk.notified = << >>
        /\ PastLoop(tk) =>
              /\ tk.news = {} <=> tk.best = NoBest
              /\ tk.best # NoBest =>
                    /\ tk.best \in tk.news
                    /\ \A n \in tk.news : n.id <= tk.best.id

\* A tick found two new items with different ids and delivered the greater
\* one, which is not the one it met last.
C6_Witness ==
    \E t \in Slots :
        LET tk == ticks[t] IN
        /\ tk.pc = "done" /\ tk.outcome = "delivered"
        /\ tk.notified # << >>
        /\ Cardinality(tk.news) = 2
        /\ tk.best.user = tk.users[1]
        /\ \E n \in tk.news : n.id < tk.best.id

\* C7: with A stored 3, latest 5 and B stored 1, latest 10, a tick that
\* fetches both records both as new, leaves seen-state at A = 5 and B = 10,
\* and hands only B's item to notifyGuild.
C7_BothRecordedOneDelivered ==
    LET tk == ticks[1] IN
    (PastLoop(tk) /\ tk.polled = {"A", "B"}) =>
        /\ tk.news = {[user |-> "A", id |-> 5], [user |-> "B", id |-> 10]}
        /\ lastSeen = [u \in Users |-> IF u = "A" THEN 5 ELSE 10]
        /\ tk.best = [user |-> "B", id |-> 10]
        /\ \A d \in SeqToSet(tk.notified) : d.user = "B" /\ d.id = 10

\* The tick has fetched both, has called notifyGuild and has returned.
C7_Witness ==
    LET tk == ticks[1] IN
    /\ tk.pc = "done" /\ tk.outcome = "delivered"
    /\ tk.polled = {"A", "B"}
    /\ tk.notified # << >>
    /\ lastSeen["A"] = 5 /\ lastSeen["B"] = 10

\* C8: a fetch that fails leaves seen-state as it is and does not end the
\* tick: after the loop every identity of the snapshot has been fetched, the
\* new items come from the fetches that succeeded, and the greatest of them
\* goes on to translation and delivery.
C8_FailedFetchSkipsOnlyItself ==
    /\ [][\A t \in Slots :
            ticks'[t].failed # ticks[t].failed => lastSeen' = lastSeen]_vars
    /\ [](\A t \in Slots :
            LET tk == ticks[t] IN
            PastLoop(tk) =>
               /\ tk.polled \cup tk.failed = SeqToSet(tk.users)
               /\ tk.polled \cap tk.failed = {}
               /\ \A n \in tk.news : n.user \in tk.polled
               /\ tk.news # {} =>
                     /\ tk.best \in tk.news
                     /\ \A n \in tk.news : n.id <= tk.best.id
                     /\ tk.pc = "done" => tk.outcome \in {"delivered", "notifyFailed"})

\* A tick in which the first fetch failed has delivered the item of the
\* second identity.
C8_Witness ==
    \E t \in Slots :
        LET tk == ticks[t] IN
        /\ tk.pc = "done" /\ tk.outcome = "delivered"
        /\ Len(tk.users) = 2
        /\ tk.failed = {tk.users[1]}
        /\ tk.notified # << >>
        /\ tk.best.user = tk.users[2]

\* C9: a tick whose getGuildState fails makes no fetch, changes no
\* seen-state entry and calls nothing, and the timer can fire again.
C9_StateFailureSkipsTick ==
    /\ [][\A t \in Slots :
            (ticks[t].pc = "getState" /\ ticks'[t].outcome = "stateFailed") =>
                lastSeen' = lastSeen /\ calls' = calls]_vars
    /\ [](\A t \in Slots :
            LET tk == ticks[t] IN
            tk.outcome = "stateFailed" =>
               /\ tk.pc = "done"
               /\ tk.polled = {} /\ tk.failed = {} /\ tk.news = {}
               /\ tk.best = NoBest /\ tk.notified = << >>
               /\ timer
               /\ ENABLED (\E s \in Slots : TimerFire(s)))

\* A tick has ended on a failed getGuildState while ids are recorded.
C9_Witness ==
    /\ \E t \in Slots : ticks[t].pc = "done" /\ ticks[t].outcome = "stateFailed"
    /\ \E u \in Users : lastSeen[u] \in Ids

\* C10: a tick that has built a Notification and has returned has invoked
\* notifyGuild exactly once for each guild whose list in the snapshot
\* contains the winning identity, and for no other guild.
C10_OncePerSubscribedGuild ==
    \A t \in Slots :
        LET tk == ticks[t] IN
        (tk.pc = "done" /\ tk.best # NoBest) =>
            \A g \in Guilds :
                Cardinality({k \in 1..Len(tk.notified) : tk.notified[k].guild = g})
                    = IF InSeq(tk.gmap[g], tk.best.user) THEN 1 ELSE 0

\* C11: once the loop is started it never stops: whatever failed in a tick
\* (a fetch, the translation, getGuildState, a notifyGuild call), the timer
\* callback is started again and again.
C11_LoopNeverStops ==
    [](~timer) \/ []<><<\E t \in Slots : TimerFire(t)>>_vars

\* A tick in which a fetch failed and a notifyGuild call failed has
\* returned, and the timer can fire.
C11_Witness ==
    \E t \in Slots :
        /\ ticks[t].pc = "done" /\ ticks[t].outcome = "notifyFailed"
        /\ ticks[t].failed # {}
        /\ ENABLED (\E s \in Slots : TimerFire(s))

\* C12: startRssLoop called without the client, getGuildState or notifyGuild
\* throws at once: the call starts no priming and creates no timer, and
\* after it there is never a fetch, a seen-state write or a delivery.
C12_MissingCollaboratorThrows ==
    /\ [][\A opts \in SUBSET Collaborators :
            (opts # Collaborators /\ StartRssLoop(opts)) =>
                /\ timer' = timer /\ prime' = prime /\ ticks' = ticks
                /\ lastSeen' = lastSeen /\ calls' = calls
                /\ io'.fn = "startRssLoop" /\ io'.res = "Error"]_vars
    /\ [](io.fn = "startRssLoop" =>
            /\ ~timer
            /\ prime = IdlePrime
            /\ ticks = [t \in Slots |-> IdleTick]
            /\ lastSeen = [u \in Users |-> NoEntry]
            /\ calls = {}
            /\ ~ENABLED NextStart)

\* startRssLoop was called with the client and getGuildState but without
\* notifyGuild, over feeds that have items and accounts that are tracked.
C12_Witness ==
    /\ io.fn = "startRssLoop"
    /\ io.opts = {"client", "getGuildState"}
    /\ \E u \in Users : feed[u].id # 0 /\ \E g \in Guilds : u \in tracked[g]

\* C13: a tick whose translation call threw carries the original text as
\* the translated text and, once it has returned, has invoked notifyGuild
\* once for every guild subscribed to the winning identity.
C13_TranslationFailureStillDelivers ==
    \A t \in Slots :
        LET tk == ticks[t] IN
        tk.provider = "threw" =>
            /\ tk.english = "original"
            /\ tk.pc = "done" =>
                  \A g \in Guilds :
                      InSeq(tk.gmap[g], tk.best.user) =>
                          \E k \in 1..Len(tk.notified) : tk.notified[k].guild = g

\* C14: translateToEnglish returns its input unchanged, without calling the
\* provider, when the input is empty or is a bare URL, and returns it
\* unchanged when no provider is configured; the provider is called only for
\* a text that is not empty and not a bare URL, with a provider configured.
C14_PassThrough ==
    (io.fn = "translateToEnglish" /\ io.done) =>
        /\ (io.text = << >> \/ IsBareUrl(io.text)) =>
              io.res.out = io.text /\ ~io.res.invoked
        /\ ~io.configured => io.res.out = io.text /\ ~io.res.invoked
        /\ io.res.invoked =>
              io.text # << >> /\ ~IsBareUrl(io.text) /\ io.configured

\* The timer callbacks that have started and have not returned.
InFlight == {t \in DOMAIN ticks : ticks[t].pc \notin {"idle", "done"}}

OutstandingFetches ==
    (IF prime.pc = "fetch" THEN 1 ELSE 0)
        + Cardinality({t \in DOMAIN ticks : ticks[t].pc = "fetch"})

\* C16: at most one feed fetch is outstanding at any moment, counting the
\* fetches of the priming task and of every tick.
C16_OneFetchOutstanding == OutstandingFetches <= 1

\* C17: the interval handed to the timer is the configured number when
\* RSS_INTERVAL_MS is numeric, and 60000 when it is unset or not numeric.
C17_IntervalOrDefault ==
    (io.fn = "clientReady" /\ io.done) =>
        io.res = IF io.env.kind = "numeral" THEN Num(io.env.n)
                 ELSE Num(60000)

\* C18: pickLatestByStatusId returns the item whose id is the greatest as an
\* integer (whatever its length), the first of the items that share the
\* greatest id, leaves out the items without an id, and returns null when
\* no item has an id.
C18_SelectsGreatestFirst ==
    (io.fn = "pickLatestByStatusId" /\ io.done) =>
        LET items == io.items
            withId == {k \in 1..Len(items) :
                          items[k].status /\ items[k].digits # << >>}
            r == io.res IN
        /\ withId = {} <=> r.item = 0
        /\ r.item # 0 =>
              /\ r.item \in withId
              /\ r.id = items[r.item].digits
              /\ \A k \in withId : BigInt(items[k].digits) <= BigInt(r.id)
              /\ \A k \in withId :
                    BigInt(items[k].digits) = BigInt(r.id) => r.item <= k

\* The pick was made between 9 and 10, the longer and greater id coming
\* second.
C18_Witness ==
    /\ io.fn = "pickLatestByStatusId" /\ io.done
    /\ io.items = << [status |-> TRUE, digits |-> <<9>>],
                     [status |-> TRUE, digits |-> <<1, 0>>] >>
    /\ io.res.item = 2

\* C19: the text extracted from a title is what follows the first "): "
\* when the title holds one, otherwise what follows the first ": ", and the
\* title unchanged when it holds neither.
C19_StripsFirstDelimiter ==
    (io.fn = "extractOriginalText" /\ io.done) =>
        LET idx == IndexOf(io.title, <<")", ":", "s">>)
            idx2 == IndexOf(io.title, <<":", "s">>) IN
        io.res = IF idx # 0 THEN SliceFrom(io.title, idx + 3)
                 ELSE IF idx2 # 0 THEN SliceFrom(io.title, idx2 + 2)
                 ELSE io.title

\* The tracked_account rows other than (g, u) are the same before and after.
OtherRowsKept(g, u) ==
    /\ \A h \in Guilds \ {g} : tracked'[h] = tracked[h]
    /\ tracked'[g] \ {u} = tracked[g] \ {u}

\* removeTrackedAccount returns true exactly when the pair was tracked, the
\* pair is not tracked afterwards and every other row is unchanged.
RemoveAsClaimed(g, u) ==
    RemoveTrackedAccount(g, u) =>
        /\ io'.res = "true" <=> u \in tracked[g]
        /\ u \notin tracked'[g]
        /\ OtherRowsKept(g, u)
        /\ config' = config

\* C20 (as stated): addTrackedAccount on a tracked pair changes nothing and
\* returns false, and on a pair that is not tracked inserts it and returns
\* true; removeTrackedAccount returns true exactly when the pair was
\* tracked, after which it is not, and leaves every other row unchanged.
C20_AddRemoveAsStated ==
    [][\A g \in Guilds : \A u \in Users :
         /\ AddTrackedAccount(g, u) =>
               /\ OtherRowsKept(g, u) /\ config' = config
               /\ IF u \in tracked[g]
                  THEN tracked' = tracked /\ io'.res = "false"
                  ELSE u \in tracked'[g] /\ io'.res = "true"
         /\ RemoveAsClaimed(g, u)]_vars

\* C20 (amended): as stated for a guild that has a guild_config row; for a
\* guild without one, addTrackedAccount on a pair that is not tracked throws
\* and changes nothing.
C20_AddRemove ==
    [][\A g \in Guilds : \A u \in Users :
         /\ AddTrackedAccount(g, u) =>
               /\ OtherRowsKept(g, u) /\ config' = config
               /\ IF u \in tracked[g]
                  THEN tracked' = tracked /\ io'.res = "false"
                  ELSE IF g \in config
                  THEN u \in tracked'[g] /\ io'.res = "true"
                  ELSE tracked' = tracked /\ io'.res = "throws"
         /\ RemoveAsClaimed(g, u)]_vars

\* addTrackedAccount has just thrown for a guild without a guild_config
\* row, in a store where the other guild tracks both accounts.
C20_Witness ==
    /\ io.fn = "addTrackedAccount"
    /\ io.res = "throws"
    /\ io.guild \notin config
    /\ \E h \in Guilds : tracked[h] = Users

\* C21: after deleteGuildData(guild) the guild has no guild_config row and
\* listTrackedAccounts(guild) is empty, and the configuration and the
\* tracked accounts of every other guild are unchanged.
C21_DeleteLeavesNothing ==
    [][\A g \in Guilds :
         DeleteGuildData(g) =>
            /\ g \notin config'
            /\ ListTrackedAccounts(g)' = << >>
            /\ \A h \in Guilds \ {g} :
                  /\ h \in config' <=> h \in config
                  /\ tracked'[h] = tracked[h]]_vars

\* deleteGuildData has just deleted the guild_config row of a guild, in a
\* store where the other guild is configured and tracks both accounts.
C21_Witness ==
    /\ io.fn = "deleteGuildData"
    /\ io.res = "1"
    /\ io.guild \notin config
    /\ tracked[io.guild] = {}
    /\ \E h \in config : tracked[h] = Users

\* The second of two consecutive ticks fetches only identities that the
\* first tick has fetched (no fetch of them failed, the snapshot is the same).
SecondSeesSame ==
    /\ ticks[1].pc = "done"
    /\ ticks[2].pc \notin {"idle", "getState"}
    /\ ticks[2].failed = {}
    /\ SeqToSet(ticks[2].users) \subseteq ticks[1].polled

\* C22: the second of two consecutive ticks over unchanged feeds and an
\* unchanged store finds no new item, changes no seen-state entry and calls
\* neither translateToEnglish nor notifyGuild; an item that was recorded by
\* the first tick and lost the comparison there is not delivered.
C22_SecondTickIdle ==
    /\ [][(ticks'[2] # ticks[2] /\ SecondSeesSame') =>
             lastSeen' = lastSeen /\ calls' = calls]_vars
    /\ [](SecondSeesSame =>
             /\ ticks[2].news = {}
             /\ ticks[2].best = NoBest
             /\ ticks[2].notified = << >>
             /\ ticks[2].pc \in {"fetch", "done"}
             /\ \A n \in ticks[1].news : lastSeen[n.user] = n.id)

\* The first tick recorded two new items and delivered one; the second tick
\* has fetched both identities and has returned.
C22_Witness ==
    /\ ticks[1].pc = "done" /\ ticks[1].outcome = "delivered"
    /\ Cardinality(ticks[1].news) = 2
    /\ ticks[2].pc = "done"
    /\ ticks[2].polled = Users

\* C23: a tick that fetches an identity whose latest item has no text skips
\* it: the item is not recorded as new and cannot become the winner, and the
\* seen-state is left as it is, so that the id still differs from the
\* stored one when a later tick compares it.
C23_NoTextSkipped ==
    [][\A t \in Slots : \A u \in Users :
         (/\ ticks[t].pc = "fetch"
          /\ ticks[t].users[ticks[t].i] = u
          /\ u \in ticks'[t].polled
          /\ ~feed[u].text) =>
            /\ lastSeen' = lastSeen
            /\ ticks'[t].news = ticks[t].news
            /\ ticks'[t].best = ticks[t].best
            /\ ticks'[t].notified = << >>
            /\ calls' = calls \/ ticks'[t].best.user \notin {"", u}]_vars

\* A tick has fetched only an identity whose latest item has an id and no
\* text and has returned without a tweet; nothing is stored for the identity.
C23_Witness ==
    \E t \in Slots : \E u \in Users :
        /\ prime.pc = "done"
        /\ ticks[t].pc = "done" /\ ticks[t].outcome = "noTweet"
        /\ ticks[t].polled = {u}
        /\ feed[u].id \in Ids /\ ~feed[u].text
        /\ lastSeen[u] = NoEntry

\* The accounts some guild tracks in the store now.
TrackedNow == UNION {tracked[g] : g \in Guilds}

\* C24: a tick takes its snapshot from the store as it is when the tick
\* asks (an account nobody tracks any more is not in it, an account added
\* since priming is), fetches exactly the snapshot's accounts and fans out by
\* the snapshot's lists, whatever the store becomes meanwhile; an account
\* without a recorded id has its latest item recorded as new.
C24_FreshSnapshotPerTick ==
    /\ [][\A t \in Slots :
            /\ (ticks[t].pc = "getState" /\ ticks'[t].pc \in {"fetch", "done"}
                    /\ ticks'[t].outcome # "stateFailed") =>
                  /\ SeqToSet(ticks'[t].users) = TrackedNow
                  /\ \A g \in Guilds :
                        SeqToSet(ticks'[t].gmap[g]) = tracked[g]
            /\ (ticks[t].pc \in {"fetch", "translate", "notify"}) =>
                  /\ ticks'[t].users = ticks[t].users
                  /\ ticks'[t].gmap = ticks[t].gmap
            /\ \A u \in Users :
                  (Compares(t, u) /\ lastSeen[u] = NoEntry) =>
                      /\ [user |-> u, id |-> feed[u].id] \in ticks'[t].news
                      /\ lastSeen'[u] = feed[u].id]_vars
    /\ [](\A t \in Slots :
            LET tk == ticks[t] IN
            /\ tk.polled \cup tk.failed \subseteq SeqToSet(tk.users)
            /\ PastLoop(tk) => tk.polled \cup tk.failed = SeqToSet(tk.users)
            /\ \A d \in SeqToSet(tk.notified) : InSeq(tk.gmap[d.guild], d.user)
            /\ (tk.pc = "done" /\ tk.outcome = "delivered") =>
                  \A g \in Guilds :
                      InSeq(tk.gmap[g], tk.best.user) =>
                          \E d \in SeqToSet(tk.notified) : d.guild = g)

\* Priming ran over other accounts; a later tick has delivered the item of
\* an account added since, to a guild that has removed the account while
\* the tick was running.
C24_Witness ==
    \E t \in Slots :
        LET tk == ticks[t] IN
        /\ prime.pc = "done" /\ prime.users # << >>
        /\ tk.pc = "done" /\ tk.outcome = "delivered"
        /\ ~InSeq(prime.users, tk.best.user)
        /\ \E d \in SeqToSet(tk.notified) : d.user \notin tracked[d.guild]

\* The notifyGuild calls (guild, identity, id) of the callback in slot t.
Delivered(t) == SeqToSet(ticks[t].notified)

\* C25: no (guild, item id) pair is handed to notifyGuild more than once:
\* not twice by one tick, and not by two ticks, whatever the interleaving of
\* the priming task and of overlapping ticks.
C25_NoPairDeliveredTwice ==
    \A t \in DOMAIN ticks :
        /\ Cardinality(Delivered(t)) = Len(ticks[t].notified)
        /\ \A s \in DOMAIN ticks \ {t} : Delivered(s) \cap Delivered(t) = {}

\* C26: with feeds that stay as they are, a step of the priming task never
\* replaces an id recorded in seen-state by a smaller id or by null.
C26_PrimingNeverRegresses ==
    [][prime' # prime =>
         \A u \in Users :
            lastSeen[u] \in Ids =>
               lastSeen'[u] \in Ids /\ lastSeen'[u] >= lastSeen[u]]_vars

\* The guilds of the snapshot of the callback in slot t that follow guild
\* position k and are subscribed to the tick's winner.
LaterSubscribers(t, k) ==
    {GuildOrder[j] : j \in {i \in (k + 1)..Len(GuildOrder) :
                               InSeq(ticks[t].gmap[GuildOrder[i]], ticks[t].best.user)}}

\* C27: after a rejected notifyGuild call the tick has ended and no guild
\* later in the snapshot's order has received a call, and the next tick over
\* the same feeds delivers the item to no guild (neither to the later guilds
\* nor again to the guild whose call was rejected).
C27_FailedDeliveryNotRetried ==
    /\ \A t \in OverlapSlots :
          ticks[t].outcome = "notifyFailed" =>
             /\ ticks[t].pc = "done"
             /\ ticks[t].notified[Len(ticks[t].notified)].guild
                   = GuildOrder[ticks[t].gi]
             /\ \A n \in Delivered(t) :
                   n.guild \notin LaterSubscribers(t, ticks[t].gi)
    /\ ticks[1].outcome = "notifyFailed" =>
          \A n \in Delivered(2) :
             ~(n.user = ticks[1].best.user /\ n.id = ticks[1].best.id)

\* C28: in every store state each tracked_account row belongs to a guild
\* with a guild_config row; after an accepted /setup the guild has its
\* configuration row and the default account; addTrackedAccount for a guild
\* without a configuration row throws and changes neither table; after
\* deleteGuildData the guild has no configuration row and no tracked account.
C28_TrackedRowsHaveConfig ==
    /\ [](\A g \in Guilds : tracked[g] # {} => g \in config)
    /\ [][(io'.fn = "handleSetup" /\ io'.res = "configured") =>
             /\ io'.guild \in config'
             /\ DefaultAccount \in tracked'[io'.guild]]_vars
    /\ [][(io'.fn = "addTrackedAccount" /\ io'.guild \notin config) =>
             /\ tracked' = tracked
             /\ config' = config
             /\ io'.res = "throws"]_vars
    /\ [][io'.fn = "deleteGuildData" =>
             /\ io'.guild \notin config'
             /\ tracked'[io'.guild] = {}]_vars

\* addTrackedAccount has thrown for a guild whose configuration was deleted
\* after a /setup, while another guild set up by /setup keeps its account.
C28_Witness ==
    /\ io.fn = "addTrackedAccount"
    /\ io.guild \notin config
    /\ tracked[io.guild] = {}
    /\ io.res = "throws"
    /\ \E h \in config : tracked[h] = {DefaultAccount}

=============================================================================
